---- MODULE Spec2Model ----
(***************************************************************************)
(* A model of rospy's topic core (src/core/rospy/src/rospy/topics.py):     *)
(* the reference-counted _TopicManager, the Publisher/Subscriber handles   *)
(* that acquire and release impls through it, the _PublisherImpl publish   *)
(* path with its latch, its publish mutex and its copy-on-write connection *)
(* list, and the _SubscriberImpl callback list with its delivery and its   *)
(* latch replay.                                                           *)
(*                                                                         *)
(* Python values: None is NoneV for names, callbacks and messages, 0 for   *)
(* an object reference (impl ids start at 1) and the empty sequence for an *)
(* optional integer (<<n>> is the integer n).                              *)
(***************************************************************************)
EXTENDS Integers, Sequences, FiniteSets, TLC

\* ---------------------------------------------------------------- bounds
MaxHandles == 2
MaxConns == 2
MaxPubConns == 1
MaxPublish == 2
MaxCallbacks == 2
MaxMsgs == 2
MaxListeners == 1
MaxSize == 2
MaxEntries == 3

\* ------------------------------------------------------- program constants
DEFAULT_BUFF_SIZE == 65536

Threads == {1, 2}
Names == {"/a"}
PUB == "pub"
SUB == "sub"
RegTypes == {PUB, SUB}
NoneV == "None"
NoImpl == 0
CallbackFns == {"f"}
Conns == 1..MaxConns
NoConn == 0
\* A message: the ordinal of the Publisher.publish call that carries it, and
\* whether it can serialize itself. NoMsg is None.
NoMsg == [id |-> 0, ok |-> TRUE]
QueueSizeArgs == {<<>>, <<0>>}
BuffSizeArgs == {<<DEFAULT_BUFF_SIZE>>, <<0>>}

VARIABLES
  pubs,       \* _TopicManager.pubs: resolved name -> impl id (0: no entry)
  subs,       \* _TopicManager.subs
  topics,     \* _TopicManager.topics
  impls,      \* the impl objects ever created, by id
  lock,       \* _TopicManager.lock: the thread that holds it (0: free)
  handles,    \* the Publisher/Subscriber objects, by id
  thr,        \* each thread's position, locals and the outcome of its last call
  notified    \* history: the registration listeners' notifications, per
              \* direction and resolved name, in the order they were made

\* One _PublisherImpl and the transports connected to it.
VARIABLES
  pimpl,      \* the _PublisherImpl's fields
  plock,      \* the RLock object made for _PublisherImpl.publock: owner and depth
  conn,       \* the transports: state and what was written to them; whether a
              \* write_data raised, and how many Publisher.publish calls had been
              \* made when publish evicted it (0: not evicted)
  pt,         \* each thread's position and locals in the publisher's methods
  shutdown,   \* rospy.core.is_shutdown()
  npub,       \* Publisher.publish calls made so far
  gh          \* history: the last message published / serialized, write_data calls

\* One _SubscriberImpl and its inbound connection.
VARIABLES
  simpl,      \* the _SubscriberImpl's fields
  sconns,     \* its connections list
  slatch,     \* the latch slot of the inbound connection (0: None)
  sthr,       \* each thread's position and locals in the subscriber's methods
  sgh         \* history: add_callback calls made, the delivery made, and how
              \* each callback came by the latched message

mgrVars == <<pubs, subs, topics, impls, lock, handles, thr, notified>>
pubVars == <<pimpl, plock, conn, pt, shutdown, npub, gh>>
subVars == <<simpl, sconns, slatch, sthr, sgh>>
vars == <<pubs, subs, topics, impls, lock, handles, thr, notified,
          pimpl, plock, conn, pt, shutdown, npub, gh,
          simpl, sconns, slatch, sthr, sgh>>

\* ------------------------------------------------------------ _TopicImpl
\* _TopicImpl.__init__ / _SubscriberImpl.__init__: a fresh impl.
NewImpl(reg, name) ==
  [reg_type |-> reg, resolved_name |-> name, ref_count |-> 0, closed |-> FALSE,
   callbacks |-> <<>>, callbacks_none |-> FALSE,
   queue_size |-> <<>>, buff_size |-> <<DEFAULT_BUFF_SIZE>>, rcvd |-> <<>>]

\* _TopicImpl.close / _SubscriberImpl.close on the manager's view of an impl:
\* a closed impl stays closed; a subscriber impl with callbacks drops them and
\* sets the list to None.
CloseImpl(im) ==
  IF im.closed THEN
    IF im.reg_type = SUB /\ ~im.callbacks_none /\ im.callbacks # <<>>
      THEN [im EXCEPT !.callbacks = <<>>, !.callbacks_none = TRUE]
      ELSE im
  ELSE IF im.reg_type = SUB /\ im.callbacks # <<>>
      THEN [im EXCEPT !.closed = TRUE, !.callbacks = <<>>, !.callbacks_none = TRUE]
      ELSE [im EXCEPT !.closed = TRUE]

\* _SubscriberImpl.set_queue_size: the exception raised and the stored hint.
SetQueueSize(old, q) ==
  IF q = <<-1>> THEN [exc |-> "none", queue_size |-> <<>>]
  ELSE IF q = <<0>> THEN [exc |-> "ROSException", queue_size |-> old]
  ELSE [exc |-> "none", queue_size |-> q]

\* _SubscriberImpl.set_buff_size.
SetBuffSizeZeroAllowed(old, b) ==
  IF b[1] < 0 THEN [exc |-> "ROSException", buff_size |-> old]
  ELSE [exc |-> "none", buff_size |-> b]

SetBuffSize(old, b) ==
  IF b[1] <= 0 THEN [exc |-> "ROSException", buff_size |-> old]
  ELSE [exc |-> "none", buff_size |-> b]

\* The index of the first entry of a callback list equal to cb (0: none).
LastMatch(cbs, cb) ==
  IF \E i \in 1..Len(cbs) : cbs[i] = cb
    THEN CHOOSE i \in 1..Len(cbs) : cbs[i] = cb /\ \A j \in (i+1)..Len(cbs) : cbs[j] # cb
    ELSE 0

FirstMatch(cbs, cb) ==
  IF \E i \in 1..Len(cbs) : cbs[i] = cb
    THEN CHOOSE i \in 1..Len(cbs) : cbs[i] = cb /\ \A j \in 1..(i-1) : cbs[j] # cb
    ELSE 0

RemoveAt(s, i) == [j \in 1..(Len(s)-1) |-> IF j < i THEN s[j] ELSE s[j+1]]

\* ---------------------------------------------------------- _TopicManager
MapOf(reg) == IF reg = PUB THEN pubs ELSE subs

\* _TopicManager._add, line 971: the registration listeners are told of the
\* impl that was just put in the map; acquire_impl calls _add only when it
\* made the impl.
NotifyAddedAlways(log, reg, name, create) ==
  [log EXCEPT ![reg][name] = Append(@, "added")]

NotifyAdded(log, reg, name, create) ==
  IF create THEN [log EXCEPT ![reg][name] = Append(@, "added")] ELSE log

\* _TopicManager._remove, line 997: release_impl calls _remove only when the
\* reference count reached zero.
NotifyRemoved(log, reg, name, last) ==
  IF last THEN [log EXCEPT ![reg][name] = Append(@, "removed")] ELSE log

\* _TopicManager._recalculate_topics over the maps p and s.
RecalculateTopics(p, s, im) ==
  {im[p[n]].resolved_name : n \in {m \in Names : p[m] # NoImpl}} \cup
  {im[s[n]].resolved_name : n \in {m \in Names : s[m] # NoImpl}}

\* release_impl, line 1080: the last reference is gone.
LastReferenceNever(n) == n < 0
LastReference(n) == n = 0

\* threading.Condition() wraps an RLock: a thread gets it when it is free or
\* already its own.
CanAcquireBroken(t) == TRUE
CanAcquire(t) == lock \in {0, t}

\* ----------------------------------------------------------------- threads
AcqPcs == {"acq_lock", "acq_get", "acq_finish"}

\* A thread between two calls.
IdleRec ==
  [pc |-> "idle", op |-> "none", h |-> 0, reg |-> NoneV, name |-> NoneV, impl |-> NoImpl,
   exc |-> "none", nth |-> 0, changed |-> FALSE]

\* A call that has ended by raising exc (pc "raised"): what it was, on which
\* handle, and for unregister which call on the handle it was and whether it
\* had changed anything.
RaisedRec(op, h, exc, nth, changed) ==
  [pc |-> "raised", op |-> op, h |-> h, reg |-> NoneV, name |-> NoneV, impl |-> NoImpl,
   exc |-> exc, nth |-> nth, changed |-> changed]

Running(pc, op, h, reg, name, impl, nth) ==
  [pc |-> pc, op |-> op, h |-> h, reg |-> reg, name |-> name, impl |-> impl,
   exc |-> "none", nth |-> nth, changed |-> FALSE]

\* A counter that stops at 2 ("twice or more").
Upto2(n) == IF n >= 2 THEN 2 ELSE n + 1

\* The call of thread t ends: it returns, or raises exc.
Finish(t, exc) ==
  [thr EXCEPT ![t] = IF exc = "none" THEN IdleRec
                     ELSE RaisedRec(thr[t].op, thr[t].h, exc, thr[t].nth, thr[t].changed)]

Goto(t, pc) == [thr EXCEPT ![t].pc = pc]

InitManager ==
  /\ pubs = [n \in Names |-> NoImpl]
  /\ subs = [n \in Names |-> NoImpl]
  /\ topics = {}
  /\ impls = <<>>
  /\ lock = 0
  /\ handles = <<>>
  /\ thr = [t \in Threads |-> IdleRec]
  /\ notified = [reg \in RegTypes |-> [n \in Names |-> <<>>]]

\* ------------------------------------------------- Topic.__init__ (96-136)
\* Publisher(name, data_class) / Subscriber(name, data_class, callback,
\* callback_args, queue_size, buff_size): the name check (ValueError for an
\* empty name), then acquire_impl. The Subscriber's own arguments are drawn
\* where its constructor reads them (SubSizes, SubCallback).
Construct(t, reg, name) ==
  /\ UNCHANGED <<pubVars, subVars, notified>>
  /\ thr[t].pc = "idle"
  /\ Len(handles) + Cardinality({u \in Threads : thr[u].pc \in AcqPcs}) < MaxHandles
  /\ thr' = [thr EXCEPT ![t] =
        IF name = ""
          THEN RaisedRec("ctor", 0, "ValueError", 0, FALSE)
          ELSE Running("acq_lock", "ctor", 0, reg, name, NoImpl, 0)]
  /\ UNCHANGED <<pubs, subs, topics, impls, lock, handles>>

\* acquire_impl, line 1046: self.lock.acquire()
AcqLock(t) ==
  /\ UNCHANGED <<pubVars, subVars, notified>>
  /\ thr[t].pc = "acq_lock"
  /\ CanAcquire(t)
  /\ lock' = t
  /\ thr' = Goto(t, "acq_get")
  /\ UNCHANGED <<pubs, subs, topics, impls, handles>>

\* acquire_impl, line 1047: impl = map.get(resolved_name, None)
AcqGet(t) ==
  /\ UNCHANGED <<pubVars, subVars, notified>>
  /\ thr[t].pc = "acq_get"
  /\ thr' = [thr EXCEPT ![t].impl = MapOf(thr[t].reg)[thr[t].name], ![t].pc = "acq_finish"]
  /\ UNCHANGED <<pubs, subs, topics, impls, lock, handles>>

\* acquire_impl, lines 1048-1054: create and _add the impl when there was none,
\* count the reference, release the lock; Topic.__init__ stores the impl in the
\* new handle (line 136). A Subscriber goes on with its own constructor.
AcqFinish(t) ==
  /\ UNCHANGED <<pubVars, subVars>>
  /\ thr[t].pc = "acq_finish"
  /\ LET me == thr[t]
         create == me.impl = NoImpl
         id == IF create THEN Len(impls) + 1 ELSE me.impl
         im1 == IF create THEN Append(impls, NewImpl(me.reg, me.name)) ELSE impls
         hid == Len(handles) + 1
     IN /\ impls' = [im1 EXCEPT ![id].ref_count = @ + 1]
        /\ pubs' = IF create /\ me.reg = PUB THEN [pubs EXCEPT ![me.name] = id] ELSE pubs
        /\ subs' = IF create /\ me.reg = SUB THEN [subs EXCEPT ![me.name] = id] ELSE subs
        /\ topics' = IF create THEN topics \cup {me.name} ELSE topics
        /\ notified' = NotifyAdded(notified, me.reg, me.name, create)
        /\ lock' = IF lock = t THEN 0 ELSE lock
        /\ handles' = Append(handles,
              [reg_type |-> me.reg, resolved_name |-> me.name, impl |-> id,
               callback |-> NoneV, state |-> IF me.reg = PUB THEN "live" ELSE "init",
               acquired |-> id, ucalls |-> 0, raced |-> FALSE, releases |-> 0,
               unregistered |-> FALSE, hadcb |-> FALSE])
        /\ thr' = [thr EXCEPT ![t] =
              IF me.reg = PUB THEN IdleRec
              ELSE [me EXCEPT !.pc = "sub_sizes", !.h = hid, !.impl = id]]

\* Subscriber.__init__, lines 385-388: set_queue_size / set_buff_size, either of
\* which may raise out of the constructor.
SubSizes(t, qs, bs) ==
  /\ UNCHANGED <<pubVars, subVars, notified>>
  /\ thr[t].pc = "sub_sizes"
  /\ LET me == thr[t]
         im == impls[me.impl]
         q == IF qs # <<>> THEN SetQueueSize(im.queue_size, qs)
              ELSE [exc |-> "none", queue_size |-> im.queue_size]
         b == IF q.exc = "none" /\ bs # <<DEFAULT_BUFF_SIZE>>
                THEN SetBuffSize(im.buff_size, bs)
                ELSE [exc |-> "none", buff_size |-> im.buff_size]
         exc == IF q.exc # "none" THEN q.exc ELSE b.exc
     IN /\ impls' = [impls EXCEPT ![me.impl].queue_size = q.queue_size,
                                  ![me.impl].buff_size = b.buff_size]
        /\ IF exc # "none"
             THEN /\ handles' = [handles EXCEPT ![me.h].state = "failed"]
                  /\ thr' = Finish(t, exc)
             ELSE /\ handles' = handles
                  /\ thr' = Goto(t, "sub_cb")
  /\ UNCHANGED <<pubs, subs, topics, lock>>

\* Subscriber.__init__, lines 390-400: add_callback when a callback was given
\* (add_callback enters "with self.c_lock", which is None on a closed impl).
SubCallback(t, cb) ==
  /\ UNCHANGED <<pubVars, subVars, notified>>
  /\ thr[t].pc = "sub_cb"
  /\ LET me == thr[t]
         im == impls[me.impl]
     IN IF cb = NoneV
          THEN /\ handles' = [handles EXCEPT ![me.h].state = "live"]
               /\ thr' = Finish(t, "none")
               /\ impls' = impls
        ELSE IF im.closed
          THEN /\ handles' = [handles EXCEPT ![me.h].state = "failed"]
               /\ thr' = Finish(t, "AttributeError")
               /\ impls' = impls
        ELSE /\ impls' = [impls EXCEPT ![me.impl].callbacks = Append(@, cb)]
             /\ handles' = [handles EXCEPT ![me.h].state = "live", ![me.h].callback = cb,
                                           ![me.h].hadcb = TRUE]
             /\ thr' = Finish(t, "none")
  /\ UNCHANGED <<pubs, subs, topics, lock>>

\* ------------------------------------------------------ unregister (148-158)
\* A user calls unregister on a handle it was given: Subscriber.unregister
\* (404-415) for a Subscriber, Topic.unregister for a Publisher.
Unregister(t, h) ==
  /\ UNCHANGED <<pubVars, subVars, notified>>
  /\ thr[t].pc = "idle"
  /\ h \in 1..Len(handles)
  /\ handles[h].state = "live"
  /\ handles' = [handles EXCEPT ![h].ucalls = Upto2(@),
        ![h].raced = @ \/ \E u \in Threads \ {t} :
                             thr[u].op = "unregister" /\ thr[u].h = h /\ thr[u].pc # "raised"]
  /\ thr' = [thr EXCEPT ![t] =
        Running(IF handles[h].reg_type = SUB THEN "unreg_sub" ELSE "unreg_check",
                "unregister", h, handles[h].reg_type, NoneV, NoImpl,
                Upto2(handles[h].ucalls))]
  /\ UNCHANGED <<pubs, subs, topics, impls, lock>>

\* Subscriber.unregister, lines 409-412: "if self.impl", "if self.callback is
\* not None"; without a callback line 414 changes nothing.
UnregSub(t) ==
  /\ UNCHANGED <<pubVars, subVars, notified>>
  /\ thr[t].pc = "unreg_sub"
  /\ LET hd == handles[thr[t].h]
     IN thr' = IF hd.impl = NoImpl THEN Finish(t, "none")
               ELSE IF hd.callback # NoneV THEN Goto(t, "unreg_rmcb")
               ELSE Goto(t, "unreg_check")
  /\ UNCHANGED <<pubs, subs, topics, impls, lock, handles>>

\* Subscriber.unregister, line 413: self.impl.remove_callback(self.callback,
\* self.callback_args), reading the fields again.
\* remove_callback (524-543) drops the first matching entry, raises KeyError
\* without one, and cannot enter "with self.c_lock" on a closed impl.
UnregRemoveCallback(t) ==
  /\ UNCHANGED <<pubVars, subVars, notified>>
  /\ thr[t].pc = "unreg_rmcb"
  /\ LET hd == handles[thr[t].h]
         im == impls[hd.impl]
         i == FirstMatch(im.callbacks, hd.callback)
     IN IF hd.impl = NoImpl \/ im.closed
          THEN /\ thr' = Finish(t, "AttributeError")
               /\ UNCHANGED <<impls, handles>>
        ELSE IF i = 0
          THEN /\ thr' = Finish(t, "KeyError")
               /\ UNCHANGED <<impls, handles>>
        ELSE /\ impls' = [impls EXCEPT ![hd.impl].callbacks = RemoveAt(@, i)]
             /\ UNCHANGED handles
             /\ thr' = [thr EXCEPT ![t].pc = "unreg_nullcb", ![t].changed = TRUE]
  /\ UNCHANGED <<pubs, subs, topics, lock>>

\* Subscriber.unregister, line 414: self.callback = self.callback_args = None.
UnregNullCallback(t) ==
  /\ UNCHANGED <<pubVars, subVars, notified>>
  /\ thr[t].pc = "unreg_nullcb"
  /\ handles' = [handles EXCEPT ![thr[t].h].callback = NoneV]
  /\ thr' = Goto(t, "unreg_check")
  /\ UNCHANGED <<pubs, subs, topics, impls, lock>>

\* Topic.unregister, lines 155-156: the unguarded check of resolved_name and impl.
UnregCheck(t) ==
  /\ UNCHANGED <<pubVars, subVars, notified>>
  /\ thr[t].pc = "unreg_check"
  /\ LET hd == handles[thr[t].h]
     IN IF hd.resolved_name # NoneV /\ hd.impl # NoImpl
          THEN /\ thr' = [thr EXCEPT ![t].pc = "rel_lock", ![t].name = hd.resolved_name]
               /\ UNCHANGED handles
          ELSE /\ thr' = Finish(t, "none")
               /\ handles' = [handles EXCEPT ![thr[t].h].unregistered = TRUE]
  /\ UNCHANGED <<pubs, subs, topics, impls, lock>>

\* release_impl, line 1075: with self.lock
RelLock(t) ==
  /\ UNCHANGED <<pubVars, subVars, notified>>
  /\ thr[t].pc = "rel_lock"
  /\ CanAcquire(t)
  /\ lock' = t
  /\ thr' = Goto(t, "rel_body")
  /\ UNCHANGED <<pubs, subs, topics, impls, handles>>

\* release_impl, lines 1076-1085: look the impl up by name, count the reference
\* down and, at zero, close the impl and _remove it (978-999); the lock is
\* released on every way out.
ReleaseBody(t) ==
  /\ UNCHANGED <<pubVars, subVars>>
  /\ thr[t].pc = "rel_body"
  /\ LET me == thr[t]
         id == MapOf(me.reg)[me.name]
         n == impls[id].ref_count - 1
         im1 == [impls EXCEPT ![id].ref_count = n]
         im2 == [im1 EXCEPT ![id] = CloseImpl(@)]
         p2 == IF me.reg = PUB THEN [pubs EXCEPT ![me.name] = NoImpl] ELSE pubs
         s2 == IF me.reg = SUB THEN [subs EXCEPT ![me.name] = NoImpl] ELSE subs
     IN IF id = NoImpl
          THEN /\ thr' = Finish(t, "AssertionError")
               /\ UNCHANGED <<pubs, subs, topics, impls, handles, notified>>
        ELSE IF n < 0
          THEN /\ impls' = im1
               /\ thr' = Finish(t, "AssertionError")
               /\ UNCHANGED <<pubs, subs, topics, handles, notified>>
        ELSE /\ impls' = IF LastReference(n) THEN im2 ELSE im1
             /\ notified' = NotifyRemoved(notified, me.reg, me.name, LastReference(n))
             /\ pubs' = IF LastReference(n) THEN p2 ELSE pubs
             /\ subs' = IF LastReference(n) THEN s2 ELSE subs
             /\ topics' = IF LastReference(n) THEN RecalculateTopics(p2, s2, im2) ELSE topics
             /\ handles' = [handles EXCEPT ![me.h].releases = Upto2(@)]
             /\ thr' = [thr EXCEPT ![t].pc = "unreg_null", ![t].changed = TRUE]
  /\ lock' = IF lock = t THEN 0 ELSE lock

\* Topic.unregister, line 158: the handle's fields are nulled.
UnregNull(t) ==
  /\ UNCHANGED <<pubVars, subVars, notified>>
  /\ thr[t].pc = "unreg_null"
  /\ handles' = [handles EXCEPT ![thr[t].h].impl = NoImpl,
                                ![thr[t].h].resolved_name = NoneV,
                                ![thr[t].h].unregistered = TRUE]
  /\ thr' = Finish(t, "none")
  /\ UNCHANGED <<pubs, subs, topics, impls, lock>>

\* ---------------------------------------------- receive_callback (566-576)
\* The transport thread of a connection of subscriber impl i delivers
\* messages: every pair of the list that is self.callbacks at line 573 is
\* invoked on each of them.  rcvd keeps the list of the latest delivery.
ReceiveCallback(i) ==
  /\ UNCHANGED <<pubVars, subVars, notified>>
  /\ i \in 1..Len(impls)
  /\ impls[i].reg_type = SUB
  /\ ~impls[i].closed
  /\ impls' = [impls EXCEPT ![i].rcvd = <<impls[i].callbacks>>]
  /\ UNCHANGED <<pubs, subs, topics, lock, handles, thr>>

\* ----------------------------------------------- Publisher.publish (650-679)

ImplIsNoneNever(i) == FALSE

\* Line 666: self.impl is None.
ImplIsNone(i) == i = NoImpl

\* Publisher.publish on handle h, lines 666-667: an unregistered handle raises
\* ROSException; otherwise the call goes on to self.impl.  nth is 1 when an
\* unregister of the handle had returned before this call began.
HandlePublish(t, h) ==
  /\ UNCHANGED <<pubVars, subVars, notified>>
  /\ thr[t].pc = "idle"
  /\ h \in 1..Len(handles)
  /\ handles[h].reg_type = PUB
  /\ LET nth == IF handles[h].unregistered THEN 1 ELSE 0
     IN thr' = [thr EXCEPT ![t] =
          IF ImplIsNone(handles[h].impl)
            THEN RaisedRec("publish", h, "ROSException", nth, FALSE)
            ELSE Running("pub_impl", "publish", h, PUB, NoneV, handles[h].impl, nth)]
  /\ UNCHANGED <<pubs, subs, topics, impls, lock, handles>>

\* Lines 671-679: self.impl.acquire(), self.impl.publish(data) and
\* self.impl.release(): the impl's own part, where its connections are written
\* and its latch and seq change.  A closed impl raises ROSException.
HandlePublishImpl(t) ==
  /\ UNCHANGED <<pubVars, subVars, notified>>
  /\ thr[t].pc = "pub_impl"
  /\ thr' = Finish(t, IF thr[t].impl # NoImpl /\ impls[thr[t].impl].closed
                        THEN "ROSException" ELSE "none")
  /\ UNCHANGED <<pubs, subs, topics, impls, lock, handles>>

\* ------------------------------------------------------ remove_all (944-951)
\* Lines 948-949: close every impl of both maps; the manager lock is not taken.
RemoveAll(t) ==
  /\ UNCHANGED <<pubVars, subVars, notified>>
  /\ thr[t].pc = "idle"
  /\ \E n \in Names : pubs[n] # NoImpl \/ subs[n] # NoImpl
  /\ LET inmap == {pubs[n] : n \in Names} \cup {subs[n] : n \in Names}
     IN impls' = [i \in 1..Len(impls) |->
                    IF i \in inmap THEN CloseImpl(impls[i]) ELSE impls[i]]
  /\ thr' = [thr EXCEPT ![t] =
        Running("rm_clear", "remove_all", 0, NoneV, NoneV, NoImpl, 0)]
  /\ UNCHANGED <<pubs, subs, topics, lock, handles>>

\* Lines 950-951: self.pubs.clear(); self.subs.clear()
RemoveAllClear(t) ==
  /\ UNCHANGED <<pubVars, subVars, notified>>
  /\ thr[t].pc = "rm_clear"
  /\ pubs' = [n \in Names |-> NoImpl]
  /\ subs' = [n \in Names |-> NoImpl]
  /\ thr' = Finish(t, "none")
  /\ UNCHANGED <<topics, impls, lock, handles>>

\* The exception has reached the caller; the thread is free for its next call.
Return(t) ==
  /\ UNCHANGED <<pubVars, subVars, notified>>
  /\ thr[t].pc = "raised"
  /\ thr' = [thr EXCEPT ![t] = IdleRec]
  /\ UNCHANGED <<pubs, subs, topics, impls, lock, handles>>


\* =========================================================== _PublisherImpl
\* _TopicImpl.__init__ (183-197) and _PublisherImpl.__init__ (693-706).
NewPublisherImpl ==
  [connections |-> <<>>, connections_none |-> FALSE, dead_connections |-> <<>>,
   closed |-> FALSE, seq |-> 0, buff |-> <<>>, buff_state |-> "open",
   publock_none |-> FALSE, is_latch |-> FALSE, latch |-> NoMsg,
   message_data_sent |-> 0,
   subscriber_listeners |-> 0, subscriber_listeners_none |-> FALSE,
   headers |-> {}, headers_none |-> FALSE]

\* _TopicImpl.has_connections (253-261): "if self.connections".
HasConnectionsAlways(cs) == TRUE
HasConnections(cs) == cs # <<>>

\* publish, lines 826-827: "if self.is_latch: self.latch = message".
LatchOnlyWithPeers(im, message) ==
  IF im.is_latch /\ im.connections # <<>> THEN message ELSE im.latch
LatchAfter(im, message) == IF im.is_latch THEN message ELSE im.latch

\* serialize_message(b, seq, message): a message that serializes is appended
\* to the buffer as one frame; one that does not leaves the buffer as it was
\* or with a partial frame (seq 0) in it.
SerializeMessage(b, seq, message, partial) ==
  IF message.ok THEN Append(b, seq)
  ELSE IF partial THEN Append(b, 0) ELSE b

\* publish, lines 857-863: after a write_data that raised, the loop over the n
\* targets goes on with the target after target i.
AbortAfterFailure(i, n) == n + 1
AfterFailure(i, n) == i + 1

\* threading.RLock: free, or held already by the thread that asks.
PublockFree(t) == TRUE
CanAcquirePublock(t) == plock.owner \in {0, t}

LockAcquired(t) == [owner |-> t, count |-> plock.count + 1]
LockReleased == IF plock.count <= 1 THEN [owner |-> 0, count |-> 0]
                ELSE [plock EXCEPT !.count = @ - 1]

\* A sequence without its entries equal to c.
Without(cs, c) == SelectSeq(cs, LAMBDA x : x # c)

\* Transport.close() on a connection of the impl: the transport is done, and
\* its cleanup callback, remove_connection (284-303, 789-798), moves it from
\* connections to dead_connections; on a closed impl the callback fails on
\* c_lock, which is None, and changes nothing.
ConnClosed(cn, c) == [cn EXCEPT ![c].state = "closed"]
RemoveConnectionNever(im, c) == im
RemoveConnectionNoSnapshot(im, c) ==
  IF im.connections_none THEN im
  ELSE [im EXCEPT !.connections = Without(@, c)]
RemoveConnection(im, c) ==
  IF im.connections_none THEN im
  ELSE IF \E i \in 1..Len(im.connections) : im.connections[i] = c
    THEN [im EXCEPT !.connections = Without(@, c), !.dead_connections = Append(@, c)]
    ELSE im

\* A thread between two calls on the publisher.
PIdle ==
  [pc |-> "idle", op |-> "none", msg |-> NoMsg, ov |-> NoConn, conns |-> <<>>, i |-> 0,
   err |-> <<>>, myseq |-> 0, c |-> NoConn, ret |-> NoneV, exc |-> "none",
   noconn |-> FALSE, wasclosed |-> FALSE, seq0 |-> 0, sent0 |-> 0, w0 |-> 0,
   known |-> {}]

\* _PublisherImpl.publish returns ret or raises exc to the code that called it:
\* Publisher.publish (its finally clause) or add_connection (the end of its
\* with block).
ExitPublish(me, ret, exc) ==
  [me EXCEPT !.pc = IF me.op = "publish" THEN "pub_release"
                    ELSE IF me.op = "peer_publish" THEN "peer_return" ELSE "add_unlock",
             !.ret = ret, !.exc = exc]

\* The call of thread t is over: it has returned, or raised exc.
PFinish(t, exc) ==
  [pt EXCEPT ![t] = IF exc = "none" THEN PIdle
                    ELSE [PIdle EXCEPT !.pc = "raised", !.op = pt[t].op,
                                       !.msg = pt[t].msg, !.exc = exc]]

InitPublisher ==
  /\ pimpl = NewPublisherImpl
  /\ plock = [owner |-> 0, count |-> 0]
  /\ conn = [c \in Conns |-> [state |-> "new", recv |-> <<>>, latched |-> NoMsg,
                               failed |-> FALSE, evn |-> 0, closes |-> 0, craised |-> FALSE]]
  /\ pt = [t \in Threads |-> PIdle]
  /\ shutdown = FALSE
  /\ npub = 0
  /\ gh = [lastMsg |-> NoMsg, lastSer |-> NoMsg, nwrites |-> 0,
           live0 |-> <<>>, dead0 |-> <<>>, closeDone |-> FALSE]

\* A thread outside the subscriber impl's methods.
SIdle ==
  [pc |-> "idle", op |-> "none", cb |-> 0, callbacks |-> <<>>, callbacks_none |-> FALSE,
   cur |-> FALSE, taken |-> <<>>, msgs |-> <<>>, mi |-> 1, ci |-> 1, log |-> <<>>,
   exc |-> "none"]

\* _SubscriberImpl.__init__ (422-437): no callbacks, no connections, no latch.
InitSubscriber ==
  /\ simpl = NewImpl(SUB, "/a")
  /\ sconns = <<>>
  /\ slatch = 0
  /\ sthr = [t \in Threads |-> SIdle]
  /\ sgh = [nadd |-> 0, latched |-> 0, delivered |-> FALSE, rmfrom |-> <<>>,
            inv |-> [cb \in 1..MaxCallbacks |-> 0],
            how |-> [cb \in 1..MaxCallbacks |-> "none"]]

Init == InitManager /\ InitPublisher /\ InitSubscriber

\* ----------------------------------------------- Publisher.publish (650-679)
\* Lines 666-670: the handle has its impl, the node is initialized and the
\* arguments make the message of this call.
PublishCall(t, ok) ==
  /\ pt[t].pc = "idle"
  /\ npub < MaxPublish
  /\ npub' = npub + 1
  /\ pt' = [pt EXCEPT ![t] = [PIdle EXCEPT !.pc = "pub_acquire", !.op = "publish",
                                           !.msg = [id |-> npub + 1, ok |-> ok]]]
  /\ UNCHANGED <<pimpl, plock, conn, shutdown, gh>>
  /\ UNCHANGED <<mgrVars, subVars>>

\* acquire (759-762), line 761: "if self.publock is not None".
PubAcquire(t) ==
  /\ pt[t].pc = "pub_acquire"
  /\ pt' = [pt EXCEPT ![t].pc = IF pimpl.publock_none THEN "p_closed" ELSE "pub_lockwait"]
  /\ UNCHANGED <<pimpl, plock, conn, shutdown, npub, gh>>
  /\ UNCHANGED <<mgrVars, subVars>>

\* acquire, line 762: self.publock.acquire() returns once the lock is had.
PubLockWait(t) ==
  /\ pt[t].pc = "pub_lockwait"
  /\ CanAcquirePublock(t)
  /\ plock' = LockAcquired(t)
  /\ pt' = [pt EXCEPT ![t].pc = "p_closed"]
  /\ UNCHANGED <<pimpl, conn, shutdown, npub, gh>>
  /\ UNCHANGED <<mgrVars, subVars>>

\* ------------------------------------------ _PublisherImpl.publish (800-894)
\* Lines 818-824: a closed impl raises, or returns silently during shutdown.
\* On an open impl the call is under way: what seq, message_data_sent and the
\* number of write_data calls were is kept for comparison.
ClosedTopicAlwaysRaises(sd) == "ROSException"

\* Lines 821-824: what publish on a closed impl ends with, by is_shutdown().
ClosedTopic(sd) == IF sd THEN "none" ELSE "ROSException"

PClosed(t) ==
  /\ pt[t].pc = "p_closed"
  /\ LET me == pt[t]
     IN IF pimpl.closed
          THEN /\ pt' = [pt EXCEPT ![t] =
                     ExitPublish([me EXCEPT !.wasclosed = TRUE], NoneV, ClosedTopic(shutdown))]
               /\ gh' = gh
          ELSE /\ pt' = [pt EXCEPT ![t] = [me EXCEPT !.pc = "p_latch", !.seq0 = pimpl.seq,
                             !.sent0 = pimpl.message_data_sent, !.w0 = gh.nwrites]]
               /\ gh' = [gh EXCEPT !.lastMsg = IF pimpl.is_latch THEN me.msg ELSE @]
  /\ UNCHANGED <<pimpl, plock, conn, shutdown, npub>>
  /\ UNCHANGED <<mgrVars, subVars>>

\* Lines 826-827.
PLatch(t) ==
  /\ pt[t].pc = "p_latch"
  /\ pimpl' = [pimpl EXCEPT !.latch = LatchAfter(pimpl, pt[t].msg)]
  /\ pt' = [pt EXCEPT ![t].pc = "p_hascon"]
  /\ UNCHANGED <<plock, conn, shutdown, npub, gh>>
  /\ UNCHANGED <<mgrVars, subVars>>

\* Lines 829-837: without connections publish returns False; otherwise the
\* targets are the connection list as it is now, or the override alone.
PHasCon(t) ==
  /\ pt[t].pc = "p_hascon"
  /\ LET me == [pt[t] EXCEPT !.noconn = (pimpl.connections = <<>>)]
     IN pt' = [pt EXCEPT ![t] =
          IF ~HasConnections(pimpl.connections)
            THEN ExitPublish(me, "False", "none")
            ELSE [me EXCEPT !.pc = "p_serialize",
                    !.conns = IF me.ov = NoConn THEN pimpl.connections ELSE <<me.ov>>]]
  /\ UNCHANGED <<pimpl, plock, conn, shutdown, npub, gh>>
  /\ UNCHANGED <<mgrVars, subVars>>

\* The except clause of lines 870-885 for a ValueError from the buffer.
OnValueError(me) ==
  IF pimpl.closed
    THEN ExitPublish(me, NoneV, IF shutdown THEN "none" ELSE "ROSException")
    ELSE ExitPublish(me, NoneV, "ValueError")

\* Lines 841-851: b = self.buff (None once the impl is closed), b.tell(), the
\* seq is counted up and the message serialized into the buffer; a message
\* that cannot serialize itself raises SerializationError out of publish.
PSerialize(t, partial) ==
  /\ pt[t].pc = "p_serialize"
  /\ LET me == pt[t]
         seq == pimpl.seq + 1
     IN IF pimpl.buff_state = "none"
          THEN /\ pt' = [pt EXCEPT ![t] = ExitPublish(me, NoneV, "AttributeError")]
               /\ UNCHANGED <<pimpl, gh>>
        ELSE IF pimpl.buff_state = "closed"
          THEN /\ pt' = [pt EXCEPT ![t] = OnValueError(me)]
               /\ UNCHANGED <<pimpl, gh>>
        ELSE /\ pimpl' = [pimpl EXCEPT !.seq = seq,
                            !.buff = SerializeMessage(@, seq, me.msg, partial)]
             /\ IF me.msg.ok
                  THEN /\ pt' = [pt EXCEPT ![t] = [me EXCEPT !.pc = "p_write", !.i = 1,
                                     !.err = <<>>, !.myseq = seq]]
                       /\ gh' = [gh EXCEPT !.lastSer = me.msg]
                  ELSE /\ pt' = [pt EXCEPT ![t] = ExitPublish(me, NoneV, "SerializationError")]
                       /\ gh' = gh
  /\ UNCHANGED <<plock, conn, shutdown, npub>>
  /\ UNCHANGED <<mgrVars, subVars>>

\* Lines 853-863, one target a step: during shutdown the write is skipped; a
\* write_data that raises (any call may, and every call on a closed transport
\* does) puts the connection on err_con.
PWrite(t, fails) ==
  /\ pt[t].pc = "p_write"
  /\ LET me == pt[t]
         c == me.conns[me.i]
     IN IF me.i > Len(me.conns)
          THEN /\ pt' = [pt EXCEPT ![t].pc = "p_reset"]
               /\ UNCHANGED <<conn, gh>>
        ELSE IF shutdown
          THEN /\ pt' = [pt EXCEPT ![t].i = @ + 1]
               /\ UNCHANGED <<conn, gh>>
        ELSE IF fails \/ conn[c].state = "closed"
          THEN /\ pt' = [pt EXCEPT ![t].i = AfterFailure(me.i, Len(me.conns)),
                                    ![t].err = Append(@, c)]
               /\ gh' = [gh EXCEPT !.nwrites = @ + 1]
               /\ conn' = [conn EXCEPT ![c].failed = TRUE]
        ELSE /\ pt' = [pt EXCEPT ![t].i = @ + 1]
             /\ gh' = [gh EXCEPT !.nwrites = @ + 1]
             /\ conn' = [conn EXCEPT ![c].recv =
                   Append(@, [seq |-> me.myseq, id |-> me.msg.id, single |-> me.ov # NoConn])]
  /\ UNCHANGED <<pimpl, plock, shutdown, npub>>
  /\ UNCHANGED <<mgrVars, subVars>>

\* Lines 866-868: the stats are counted and the buffer is reset; the buffer
\* object b of a meanwhile closed impl raises ValueError.
PReset(t) ==
  /\ pt[t].pc = "p_reset"
  /\ IF pimpl.buff_state # "open"
       THEN /\ pt' = [pt EXCEPT ![t] = OnValueError(pt[t])]
            /\ pimpl' = pimpl
       ELSE /\ pimpl' = [pimpl EXCEPT !.message_data_sent = @ + Len(pimpl.buff),
                                      !.buff = <<>>]
            /\ pt' = [pt EXCEPT ![t].pc = "p_evict", ![t].i = 1]
  /\ UNCHANGED <<plock, conn, shutdown, npub, gh>>
  /\ UNCHANGED <<mgrVars, subVars>>

\* Lines 888-894, one connection a step: c.close(), whose cleanup callback is
\* remove_connection; a transport closed before is not closed again.
PEvict(t) ==
  /\ pt[t].pc = "p_evict"
  /\ LET me == pt[t]
         c == me.err[me.i]
     IN IF me.i > Len(me.err)
          THEN /\ pt' = [pt EXCEPT ![t] = ExitPublish(me, NoneV, "none")]
               /\ UNCHANGED <<pimpl, conn>>
          ELSE /\ pt' = [pt EXCEPT ![t].i = @ + 1]
               /\ conn' = [ConnClosed(conn, c) EXCEPT ![c].evn = IF @ = 0 THEN npub ELSE @]
               /\ pimpl' = IF conn[c].state = "live" THEN RemoveConnection(pimpl, c) ELSE pimpl
  /\ UNCHANGED <<plock, shutdown, npub, gh>>
  /\ UNCHANGED <<mgrVars, subVars>>

\* Publisher.publish, lines 674-679: the finally clause calls release (764-767),
\* which does nothing once publock is None (an RLock released by a thread
\* that does not own it raises RuntimeError); a SerializationError is raised
\* on as ROSSerializationException.
PubRelease(t) ==
  /\ pt[t].pc = "pub_release"
  /\ LET stolen == ~pimpl.publock_none /\ plock.owner # t
     IN /\ plock' = IF pimpl.publock_none \/ stolen THEN plock ELSE LockReleased
        /\ pt' = PFinish(t, IF stolen THEN "RuntimeError"
                            ELSE IF pt[t].exc = "SerializationError"
                              THEN "ROSSerializationException"
                            ELSE pt[t].exc)
  /\ UNCHANGED <<pimpl, conn, shutdown, npub, gh>>
  /\ UNCHANGED <<mgrVars, subVars>>

\* ----------------------------------- _PublisherImpl.add_connection (769-787)
\* Line 779, _TopicImpl.add_connection (263-282): under c_lock (None on a
\* closed impl) the connection list is replaced by a copy with c appended.
\* conn[c].latched keeps the message the enabled latch held at that moment.
\* Transports connect in the order of their numbers.
AddConnection(t, c) ==
  /\ pt[t].pc = "idle"
  /\ conn[c].state = "new"
  /\ \A d \in 1..(c-1) : conn[d].state # "new"
  /\ IF pimpl.connections_none
       THEN /\ pt' = [pt EXCEPT ![t] = [PIdle EXCEPT !.pc = "raised",
                        !.op = "add_connection", !.exc = "AttributeError"]]
            /\ UNCHANGED <<pimpl, conn>>
       ELSE /\ pimpl' = [pimpl EXCEPT !.connections = Append(@, c)]
            /\ conn' = [conn EXCEPT ![c].state = "live",
                          ![c].latched = IF pimpl.is_latch THEN pimpl.latch ELSE NoMsg]
            /\ pt' = [pt EXCEPT ![t] = [PIdle EXCEPT !.pc = "add_latch",
                        !.op = "add_connection", !.c = c]]
  /\ UNCHANGED <<plock, shutdown, npub, gh>>
  /\ UNCHANGED <<mgrVars, subVars>>

\* Lines 784-785: "if self.is_latch and self.latch is not None", and the
\* read of self.publock for the with statement.
AddLatchCheck(t) ==
  /\ pt[t].pc = "add_latch"
  /\ pt' = IF pimpl.is_latch /\ pimpl.latch # NoMsg
             THEN IF pimpl.publock_none THEN PFinish(t, "AttributeError")
                  ELSE [pt EXCEPT ![t].pc = "add_lock"]
             ELSE PFinish(t, "none")
  /\ UNCHANGED <<pimpl, plock, conn, shutdown, npub, gh>>
  /\ UNCHANGED <<mgrVars, subVars>>

\* Lines 785-786: the with statement has the lock; self.latch is read and
\* published to c alone.
AddLock(t) ==
  /\ pt[t].pc = "add_lock"
  /\ CanAcquirePublock(t)
  /\ plock' = LockAcquired(t)
  /\ pt' = [pt EXCEPT ![t].pc = "p_closed", ![t].msg = pimpl.latch, ![t].ov = pt[t].c]
  /\ UNCHANGED <<pimpl, conn, shutdown, npub, gh>>
  /\ UNCHANGED <<mgrVars, subVars>>

\* The with statement ends: the lock object is released, and add_connection
\* returns True or lets the exception of publish pass.
AddUnlock(t) ==
  /\ pt[t].pc = "add_unlock"
  /\ plock' = IF plock.owner = t THEN LockReleased ELSE plock
  /\ pt' = PFinish(t, IF plock.owner = t THEN pt[t].exc ELSE "RuntimeError")
  /\ UNCHANGED <<pimpl, conn, shutdown, npub, gh>>
  /\ UNCHANGED <<mgrVars, subVars>>

\* -------------------- add_headers (720-727), add_subscriber_listener (751-757)

AddHeaders(t) ==
  /\ pt[t].pc = "idle"
  /\ IF pimpl.headers_none
       THEN /\ pt' = [pt EXCEPT ![t] = [PIdle EXCEPT !.pc = "raised",
                        !.op = "add_headers", !.exc = "AttributeError"]]
            /\ UNCHANGED pimpl
       ELSE /\ pimpl' = [pimpl EXCEPT !.headers = @ \cup {"latching"}]
            /\ UNCHANGED pt
  /\ UNCHANGED <<plock, conn, shutdown, npub, gh>>
  /\ UNCHANGED <<mgrVars, subVars>>

AddSubscriberListener(t) ==
  /\ pt[t].pc = "idle"
  /\ IF pimpl.subscriber_listeners_none
       THEN /\ pt' = [pt EXCEPT ![t] = [PIdle EXCEPT !.pc = "raised",
                        !.op = "add_subscriber_listener", !.exc = "AttributeError"]]
            /\ UNCHANGED pimpl
       ELSE /\ pimpl.subscriber_listeners < MaxListeners
            /\ pimpl' = [pimpl EXCEPT !.subscriber_listeners = @ + 1]
            /\ UNCHANGED pt
  /\ UNCHANGED <<plock, conn, shutdown, npub, gh>>
  /\ UNCHANGED <<mgrVars, subVars>>

\* ----------------------------------------------- remove_connection (284-303)

\* The transport of connection c goes down (the peer left): it is closed and
\* calls its cleanup callback, which add_connection set to remove_connection
\* (line 280).
TransportClose(c) ==
  /\ conn[c].state = "live"
  /\ conn' = ConnClosed(conn, c)
  /\ pimpl' = RemoveConnection(pimpl, c)
  /\ UNCHANGED <<plock, pt, shutdown, npub, gh>>
  /\ UNCHANGED <<mgrVars, subVars>>

\* ------------------------- add_connection, lines 780-783: peer_subscribe

\* A SubscribeListener's peer_subscribe, called by add_connection for the new
\* connection c, calls one of the two functions it is handed: self.publish
\* (to all connections) or publish_single (to c alone).  Neither takes the
\* publish lock.
PeerSubscribe(t, single) ==
  /\ pt[t].pc = "add_latch"
  /\ ~pimpl.subscriber_listeners_none
  /\ pimpl.subscriber_listeners > 0
  /\ npub < MaxPublish
  /\ npub' = npub + 1
  /\ pt' = [pt EXCEPT ![t] = [@ EXCEPT !.pc = "p_closed", !.op = "peer_publish",
                                       !.msg = [id |-> npub + 1, ok |-> TRUE],
                                       !.ov = IF single THEN pt[t].c ELSE NoConn]]
  /\ UNCHANGED <<pimpl, plock, conn, shutdown, gh>>
  /\ UNCHANGED <<mgrVars, subVars>>

\* The function returns into peer_subscribe and add_connection goes on, or
\* its exception leaves add_connection.
PeerReturn(t) ==
  /\ pt[t].pc = "peer_return"
  /\ pt' = IF pt[t].exc = "none"
             THEN [pt EXCEPT ![t] = [PIdle EXCEPT !.pc = "add_latch", !.op = "add_connection",
                                                 !.c = pt[t].c]]
             ELSE PFinish(t, pt[t].exc)
  /\ UNCHANGED <<pimpl, plock, conn, shutdown, npub, gh>>
  /\ UNCHANGED <<mgrVars, subVars>>

\* -------------------------------------------------------------- environment
\* enable_latch (729-734), called by Publisher.__init__ (645-646).
EnableLatch ==
  /\ ~pimpl.is_latch
  /\ pimpl' = [pimpl EXCEPT !.is_latch = TRUE]
  /\ UNCHANGED <<plock, conn, pt, shutdown, npub, gh>>
  /\ UNCHANGED <<mgrVars, subVars>>

\* The node begins to shut down: is_shutdown() is true from now on.
Shutdown ==
  /\ ~shutdown
  /\ shutdown' = TRUE
  /\ UNCHANGED <<pimpl, plock, conn, pt, npub, gh>>
  /\ UNCHANGED <<mgrVars, subVars>>

\* _PublisherImpl.close (708-718) with _TopicImpl.close (213-228): every
\* connection is closed and, by its cleanup callback, moved to
\* dead_connections; connections, buff and publock are set to None.
PublisherClosedForgets(im) ==
  LET base == IF im.closed THEN [im EXCEPT !.dead_connections = <<>>]
              ELSE [im EXCEPT !.closed = TRUE,
                      !.dead_connections = @ \o im.connections,
                      !.connections = <<>>, !.connections_none = TRUE]
  IN  [base EXCEPT !.buff = <<>>, !.buff_state = "none", !.publock_none = TRUE,
         !.subscriber_listeners = 0, !.subscriber_listeners_none = TRUE,
         !.headers = {}, !.headers_none = TRUE]

\* The impl after close(): _TopicImpl.close returns at once on a closed impl
\* (215-216); lines 712-718 run in either case.
PublisherClosed(im) ==
  LET base == IF im.closed THEN im
              ELSE [im EXCEPT !.closed = TRUE,
                      !.dead_connections = @ \o im.connections,
                      !.connections = <<>>, !.connections_none = TRUE]
  IN  [base EXCEPT !.buff = <<>>, !.buff_state = "none", !.publock_none = TRUE,
         !.subscriber_listeners = 0, !.subscriber_listeners_none = TRUE,
         !.headers = {}, !.headers_none = TRUE]

\* The transports after close(): those of the live list are closed (217-224).
ClosedConns(im, cn) ==
  [c \in Conns |->
     IF ~im.closed /\ \E i \in 1..Len(im.connections) : im.connections[i] = c
       THEN [cn[c] EXCEPT !.state = "closed"] ELSE cn[c]]

ClosePublisherImpl ==
  /\ pimpl' = PublisherClosed(pimpl)
  /\ conn' = ClosedConns(pimpl, conn)
  /\ UNCHANGED <<plock, pt, shutdown, npub, gh>>
  /\ UNCHANGED <<mgrVars, subVars>>

\* ------------------------------ _TopicImpl.close, statement by statement
\* c_lock is held by the thread that is in the loop of lines 220-226.
CLockFree == \A t \in Threads : pt[t].pc \notin {"cl_loop", "rm_store"}

\* Lines 220-226: the try/except inside the loop; the loop goes on to the
\* next connection whether or not c.close() raised.
NextToCloseAborts(i, n, raises) == IF raises THEN n + 1 ELSE i + 1

NextToClose(i, n, raises) == i + 1

\* Lines 215-220: a closed impl returns at once; otherwise closed is set,
\* c_lock is taken and the loop starts on the list object that is
\* self.connections at that moment.
CloseBegin(t) ==
  /\ pt[t].pc = "idle"
  /\ IF pimpl.closed
       THEN /\ pt' = [pt EXCEPT ![t] = [PIdle EXCEPT !.pc = "cl_release", !.op = "close"]]
            /\ UNCHANGED <<pimpl, gh>>
       ELSE /\ CLockFree
            /\ pimpl' = [pimpl EXCEPT !.closed = TRUE]
            /\ pt' = [pt EXCEPT ![t] = [PIdle EXCEPT !.pc = "cl_loop", !.op = "close",
                                                     !.conns = pimpl.connections, !.i = 1]]
            /\ gh' = [gh EXCEPT !.live0 = pimpl.connections,
                                !.dead0 = pimpl.dead_connections]
  /\ UNCHANGED <<plock, conn, shutdown, npub>>
  /\ UNCHANGED <<mgrVars, subVars>>

\* Lines 221-226: c.close() for the next connection of the list.  The
\* transport may or may not get as far as its cleanup callback
\* (remove_connection), and the call may raise; the except clause logs it.
CloseConn(t, ran, raises) ==
  /\ pt[t].pc = "cl_loop"
  /\ pt[t].i <= Len(pt[t].conns)
  /\ LET c == pt[t].conns[pt[t].i]
     IN /\ conn' = [conn EXCEPT ![c].closes = @ + 1, ![c].craised = raises,
                                ![c].state = IF ran THEN "closed" ELSE @]
        /\ pimpl' = IF ran THEN RemoveConnection(pimpl, c) ELSE pimpl
  /\ pt' = [pt EXCEPT ![t].i = NextToClose(pt[t].i, Len(pt[t].conns), raises)]
  /\ UNCHANGED <<plock, shutdown, npub, gh>>
  /\ UNCHANGED <<mgrVars, subVars>>

\* Lines 227-228: del self.connections[:], the end of the with block, and
\* the fields set to None.
CloseClear(t) ==
  /\ pt[t].pc = "cl_loop"
  /\ pt[t].i > Len(pt[t].conns)
  /\ pimpl' = [pimpl EXCEPT !.connections = <<>>, !.connections_none = TRUE]
  /\ pt' = [pt EXCEPT ![t].pc = "cl_release"]
  /\ gh' = [gh EXCEPT !.closeDone = TRUE]
  /\ UNCHANGED <<plock, conn, shutdown, npub>>
  /\ UNCHANGED <<mgrVars, subVars>>

\* _PublisherImpl.close, lines 712-718, after _TopicImpl.close returned.
CloseRelease(t) ==
  /\ pt[t].pc = "cl_release"
  /\ pimpl' = [pimpl EXCEPT !.buff = <<>>, !.buff_state = "none", !.publock_none = TRUE,
                  !.subscriber_listeners = 0, !.subscriber_listeners_none = TRUE,
                  !.headers = {}, !.headers_none = TRUE]
  /\ pt' = [pt EXCEPT ![t] = PIdle]
  /\ UNCHANGED <<plock, conn, shutdown, npub, gh>>
  /\ UNCHANGED <<mgrVars, subVars>>

\* ------------- remove_connection (284-303), statement by statement, and
\* get_stats_info (305-316), which reads the two lists without the lock
\* Lines 294-300: a transport that went down calls its cleanup callback from
\* thread t; under c_lock the copies are made and self.connections is
\* assigned.  The copy of the dead list waits in the thread's locals.
RemoveBegin(t, c) ==
  /\ pt[t].pc = "idle"
  /\ conn[c].state \in {"live", "closed"}
  /\ CLockFree
  /\ ~pimpl.connections_none
  /\ LET live == \E i \in 1..Len(pimpl.connections) : pimpl.connections[i] = c
     IN /\ pimpl' = [pimpl EXCEPT !.connections = Without(@, c)]
        /\ pt' = [pt EXCEPT ![t] = [PIdle EXCEPT !.pc = "rm_store",
                      !.op = "remove_connection", !.c = c,
                      !.err = IF live THEN Append(pimpl.dead_connections, c)
                                      ELSE pimpl.dead_connections]]
  /\ conn' = ConnClosed(conn, c)
  /\ UNCHANGED <<plock, shutdown, npub, gh>>
  /\ UNCHANGED <<mgrVars, subVars>>

\* Lines 301-303: self.dead_connections is assigned and c_lock released.
RemoveStore(t) ==
  /\ pt[t].pc = "rm_store"
  /\ pimpl' = [pimpl EXCEPT !.dead_connections = pt[t].err]
  /\ pt' = [pt EXCEPT ![t] = PIdle]
  /\ UNCHANGED <<plock, conn, shutdown, npub, gh>>
  /\ UNCHANGED <<mgrVars, subVars>>

\* get_stats_info, line 313: connections = self.connections.  known is the
\* set of connections whose add_connection had appended them by then.
StatsReadLive(t) ==
  /\ pt[t].pc = "idle"
  /\ pt' = [pt EXCEPT ![t] = [PIdle EXCEPT !.pc = "st_dead", !.op = "get_stats_info",
                !.conns = pimpl.connections,
                !.noconn = pimpl.connections_none,
                !.known = {c \in Conns : conn[c].state # "new"}]]
  /\ UNCHANGED <<pimpl, plock, conn, shutdown, npub, gh>>
  /\ UNCHANGED <<mgrVars, subVars>>

\* Lines 314-316: dead_connections = self.dead_connections, and the report
\* is built from the two lists read; iterating None raises TypeError.
StatsReadDead(t) ==
  /\ pt[t].pc = "st_dead"
  /\ pt' = IF pt[t].noconn THEN PFinish(t, "TypeError")
           ELSE [pt EXCEPT ![t].pc = "st_done", ![t].err = pimpl.dead_connections]
  /\ UNCHANGED <<pimpl, plock, conn, shutdown, npub, gh>>
  /\ UNCHANGED <<mgrVars, subVars>>

\* The report is returned.
StatsReturn(t) ==
  /\ pt[t].pc = "st_done"
  /\ pt' = [pt EXCEPT ![t] = PIdle]
  /\ UNCHANGED <<pimpl, plock, conn, shutdown, npub, gh>>
  /\ UNCHANGED <<mgrVars, subVars>>

\* The exception of a publisher call has reached the caller.
PReturn(t) ==
  /\ pt[t].pc = "raised"
  /\ pt' = [pt EXCEPT ![t] = PIdle]
  /\ UNCHANGED <<pimpl, plock, conn, shutdown, npub, gh>>
  /\ UNCHANGED <<mgrVars, subVars>>

\* ------------------------------------------------ _SubscriberImpl (422-576)

\* _invoke_callback (545-564): what escapes when the callback raised or not.
\* The except clause traps every Exception.
InvokeCallbackUntrapped(raised) == IF raised THEN "Exception" ELSE "none"

InvokeCallback(raised) == "none"

\* The list object a reader holds is the impl's current one until a writer
\* installs a fresh list.
Replaced(st) == [t \in Threads |-> [st[t] EXCEPT !.cur = FALSE]]

\* del self.callbacks[:] (442) empties the current list object, and with it
\* the list of every reader that holds that object.
Emptied(st) ==
  [t \in Threads |-> IF st[t].cur THEN [st[t] EXCEPT !.callbacks = <<>>] ELSE st[t]]

SFinish(t, st, exc) ==
  IF exc = "none" THEN [st EXCEPT ![t] = SIdle]
  ELSE [st EXCEPT ![t] = [SIdle EXCEPT !.pc = "raised", !.op = st[t].op, !.cb = st[t].cb,
                                      !.exc = exc]]

\* One invocation of cb with msg, counted when msg is the latched message.
Invoked(g, cb, msg) ==
  IF msg = g.latched /\ msg # 0 THEN [g EXCEPT !.inv[cb] = @ + 1] ELSE g

\* add_connection (263-282) for the inbound connection of the topic.
SubConnect ==
  /\ ~simpl.closed
  /\ sconns = <<>>
  /\ sconns' = <<1>>
  /\ UNCHANGED <<mgrVars, pubVars, simpl, slatch, sthr, sgh>>

\* add_callback (512-517): under c_lock, a copy of the list with the new pair
\* appended becomes self.callbacks.  On a closed impl c_lock is None.
AddCallback(t) ==
  /\ sthr[t].pc = "idle"
  /\ sgh.nadd < MaxCallbacks
  /\ LET cb == sgh.nadd + 1
         me == [sthr[t] EXCEPT !.op = "add_callback", !.cb = cb]
         st == [sthr EXCEPT ![t] = me]
     IN  IF simpl.closed
           THEN /\ sthr' = SFinish(t, st, "AttributeError")
                /\ sgh' = [sgh EXCEPT !.nadd = cb, !.how[cb] = "failed"]
                /\ UNCHANGED simpl
           ELSE /\ simpl' = [simpl EXCEPT !.callbacks = Append(@, cb)]
                /\ sthr' = [Replaced(st) EXCEPT ![t].pc = "ac_latch"]
                /\ sgh' = [sgh EXCEPT !.nadd = cb,
                                      !.how[cb] = IF sgh.delivered THEN "late" ELSE "running"]
  /\ UNCHANGED <<mgrVars, pubVars, sconns, slatch>>

\* add_callback (512-517) with a pair that may be registered already: the
\* list takes it once more.
AddCallbackPair(t, cb) ==
  /\ sthr[t].pc = "idle"
  /\ Len(simpl.callbacks) < MaxEntries
  /\ LET st == [sthr EXCEPT ![t] = [@ EXCEPT !.op = "add_callback", !.cb = cb]]
     IN  IF simpl.closed
           THEN /\ sthr' = SFinish(t, st, "AttributeError")
                /\ UNCHANGED simpl
           ELSE /\ simpl' = [simpl EXCEPT !.callbacks = Append(@, cb)]
                /\ sthr' = [Replaced(st) EXCEPT ![t].pc = "ac_latch"]
  /\ UNCHANGED <<mgrVars, pubVars, sconns, slatch, sgh>>

\* add_callback (521): c.latch is not None.
HasLatchNever(latch) == FALSE

HasLatch(latch) == latch # 0

\* add_callback (520-522), outside the lock: the new callback is invoked with
\* the latch of every connection that has one.  After close connections is None.
AddCallbackLatch(t, raises) ==
  /\ sthr[t].pc = "ac_latch"
  /\ LET cb == sthr[t].cb IN
       IF simpl.closed
         THEN /\ sthr' = SFinish(t, sthr, "TypeError")
              /\ sgh' = [sgh EXCEPT !.how[cb] = "failed"]
         ELSE LET exc == IF sconns # <<>> /\ HasLatch(slatch) THEN InvokeCallback(raises) ELSE "none"
                  g == IF sconns # <<>> /\ HasLatch(slatch) THEN Invoked(sgh, cb, slatch) ELSE sgh
              IN  /\ sthr' = SFinish(t, sthr, exc)
                  /\ sgh' = [g EXCEPT !.how[cb] = IF exc # "none" THEN "failed"
                                                  ELSE IF @ = "running" THEN "early" ELSE @]
  /\ UNCHANGED <<mgrVars, pubVars, simpl, sconns, slatch>>

\* remove_callback (524-543): under c_lock, a copy without the first match
\* becomes self.callbacks; KeyError when nothing matches.
RemoveCallback(t, cb) ==
  /\ sthr[t].pc = "idle"
  /\ LET st == [sthr EXCEPT ![t] = [@ EXCEPT !.op = "remove_callback", !.cb = cb]]
         i == FirstMatch(simpl.callbacks, cb)
     IN  IF simpl.closed
           THEN sthr' = SFinish(t, st, "AttributeError") /\ UNCHANGED simpl
         ELSE IF i = 0
           THEN sthr' = SFinish(t, st, "KeyError") /\ UNCHANGED simpl
         ELSE /\ simpl' = [simpl EXCEPT !.callbacks = RemoveAt(@, i)]
              /\ sthr' = SFinish(t, Replaced(st), "none")
  /\ sgh' = IF ~simpl.closed /\ FirstMatch(simpl.callbacks, cb) # 0
              THEN [sgh EXCEPT !.rmfrom = simpl.callbacks] ELSE sgh
  /\ UNCHANGED <<mgrVars, pubVars, sconns, slatch>>

\* The transport thread of the inbound connection received n messages from a
\* latching publisher: it stores the last one in the connection's latch slot
\* and then calls receive_callback with the list.
Deliver(t, n) ==
  /\ sthr[t].pc = "idle"
  /\ sconns # <<>>
  /\ sgh.latched = 0
  /\ slatch' = n
  /\ sgh' = [sgh EXCEPT !.latched = n]
  /\ sthr' = [sthr EXCEPT ![t] = [@ EXCEPT !.pc = "rc_start", !.op = "receive_callback",
                                          !.msgs = [i \in 1..n |-> i]]]
  /\ UNCHANGED <<mgrVars, pubVars, simpl, sconns>>

\* receive_callback (573): callbacks = self.callbacks, without the lock.
RcStart(t) ==
  /\ sthr[t].pc = "rc_start"
  /\ sthr' = [sthr EXCEPT ![t] = [@ EXCEPT !.pc = "rc_loop", !.callbacks = simpl.callbacks,
                                          !.callbacks_none = simpl.callbacks_none,
                                          !.cur = ~simpl.callbacks_none,
                                          !.taken = simpl.callbacks]]
  /\ UNCHANGED <<mgrVars, pubVars, simpl, sconns, slatch, sgh>>

\* receive_callback (574-576): one step of the nested loops.  Iterating over
\* None raises TypeError; the list iterator ends when its index reaches the
\* present length of the list.
RcInvoke(t, raises) ==
  /\ sthr[t].pc = "rc_loop"
  /\ LET me == sthr[t] IN
       IF me.mi > Len(me.msgs)
         THEN /\ sthr' = SFinish(t, sthr, "none")
              /\ sgh' = [sgh EXCEPT !.delivered = TRUE]
       ELSE IF me.callbacks_none
         THEN /\ sthr' = SFinish(t, sthr, "TypeError")
              /\ sgh' = [sgh EXCEPT !.delivered = TRUE]
       ELSE IF me.ci > Len(me.callbacks)
         THEN /\ sthr' = [sthr EXCEPT ![t] = [me EXCEPT !.mi = @ + 1, !.ci = 1]]
              /\ UNCHANGED sgh
       ELSE LET cb == me.callbacks[me.ci]
                exc == InvokeCallback(raises)
            IN  /\ sgh' = [Invoked(sgh, cb, me.msgs[me.mi])
                             EXCEPT !.delivered = IF exc # "none" THEN TRUE ELSE @]
                /\ sthr' = IF exc # "none" THEN SFinish(t, sthr, exc)
                           ELSE [sthr EXCEPT ![t] =
                                   [me EXCEPT !.ci = @ + 1,
                                              !.log = Append(@, <<me.msgs[me.mi], cb>>)]]
  /\ UNCHANGED <<mgrVars, pubVars, simpl, sconns, slatch>>

\* _SubscriberImpl.close (439-444): _TopicImpl.close, then a non-empty
\* callback list is emptied in place and the field set to None.
CloseSubscriberImpl ==
  /\ simpl' = CloseImpl(simpl)
  /\ sconns' = <<>>
  /\ sthr' = IF simpl.callbacks # <<>> THEN Emptied(sthr) ELSE sthr
  /\ UNCHANGED <<mgrVars, pubVars, slatch, sgh>>

\* The exception reaches the caller.
SReturn(t) ==
  /\ sthr[t].pc = "raised"
  /\ sthr' = [sthr EXCEPT ![t] = SIdle]
  /\ UNCHANGED <<mgrVars, pubVars, simpl, sconns, slatch, sgh>>

\* ------------------------------ set_queue_size, set_buff_size (454-482)

\* The integers a caller passes as a size.
SizeInputs == {<<n>> : n \in (0 - MaxSize)..MaxSize}

SetQueueSizeCall(t, q) ==
  /\ sthr[t].pc = "idle"
  /\ LET r == SetQueueSize(simpl.queue_size, q)
     IN /\ simpl' = [simpl EXCEPT !.queue_size = r.queue_size]
        /\ sthr' = SFinish(t, [sthr EXCEPT ![t].op = "set_queue_size"], r.exc)
  /\ UNCHANGED <<mgrVars, pubVars, sconns, slatch, sgh>>

SetBuffSizeCall(t, b) ==
  /\ sthr[t].pc = "idle"
  /\ LET r == SetBuffSize(simpl.buff_size, b)
     IN /\ simpl' = [simpl EXCEPT !.buff_size = r.buff_size]
        /\ sthr' = SFinish(t, [sthr EXCEPT ![t].op = "set_buff_size"], r.exc)
  /\ UNCHANGED <<mgrVars, pubVars, sconns, slatch, sgh>>

\* --------------------------------------------------------- specifications
CtorNames == Names \cup {""}
CallbackArgs == CallbackFns \cup {NoneV}

\* Handles built, used and unregistered from several threads: every call of
\* acquire_impl and release_impl the handles make.
NextAcqRel ==
  \E t \in Threads :
    \/ \E reg \in RegTypes, name \in CtorNames : Construct(t, reg, name)
    \/ AcqLock(t)
    \/ AcqGet(t)
    \/ AcqFinish(t)
    \/ \E qs \in QueueSizeArgs, bs \in BuffSizeArgs : SubSizes(t, qs, bs)
    \/ \E cb \in CallbackArgs : SubCallback(t, cb)
    \/ \E h \in 1..MaxHandles : Unregister(t, h)
    \/ UnregSub(t)
    \/ UnregRemoveCallback(t)
    \/ UnregNullCallback(t)
    \/ UnregCheck(t)
    \/ RelLock(t)
    \/ ReleaseBody(t)
    \/ UnregNull(t)
    \/ \E h \in 1..MaxHandles : HandlePublish(t, h)
    \/ HandlePublishImpl(t)
    \/ Return(t)

SpecAcqRel == Init /\ [][NextAcqRel]_vars

\* The same with messages delivered to the subscriber impls.
NextDeliver ==
  \/ NextAcqRel
  \/ \E i \in 1..MaxHandles : ReceiveCallback(i)

SpecDeliver == Init /\ [][NextDeliver]_vars

\* The same with node teardown (remove_all) at any time.
Next ==
  \/ NextAcqRel
  \/ \E t \in Threads : RemoveAll(t) \/ RemoveAllClear(t)

Spec == Init /\ [][Next]_vars

\* One publisher impl: threads publish through Publisher.publish while
\* connections are added, fail and are evicted, and the impl may be closed.
NextPub ==
  \/ \E t \in Threads :
       \/ \E ok \in BOOLEAN : PublishCall(t, ok)
       \/ PubAcquire(t)
       \/ PubLockWait(t)
       \/ PClosed(t)
       \/ PLatch(t)
       \/ PHasCon(t)
       \/ \E partial \in BOOLEAN : PSerialize(t, partial)
       \/ \E fails \in BOOLEAN : PWrite(t, fails)
       \/ PReset(t)
       \/ PEvict(t)
       \/ PubRelease(t)
       \/ \E c \in 1..MaxPubConns : AddConnection(t, c)
       \/ AddLatchCheck(t)
       \/ AddLock(t)
       \/ AddUnlock(t)
       \/ PReturn(t)
  \/ EnableLatch
  \/ Shutdown
  \/ ClosePublisherImpl

SpecPub == Init /\ [][NextPub]_vars

\* Broadcast to several connections: threads publish messages that serialize
\* on an impl without latch while connections are added, fail in write_data
\* and are evicted, the node may shut down and the impl may be closed.
NextBroadcast ==
  \/ \E t \in Threads :
       \/ PublishCall(t, TRUE)
       \/ PubAcquire(t)
       \/ PubLockWait(t)
       \/ PClosed(t)
       \/ PLatch(t)
       \/ PHasCon(t)
       \/ PSerialize(t, FALSE)
       \/ \E fails \in BOOLEAN : PWrite(t, fails)
       \/ PReset(t)
       \/ PEvict(t)
       \/ PubRelease(t)
       \/ \E c \in Conns : AddConnection(t, c)
       \/ AddLatchCheck(t)
       \/ PReturn(t)
  \/ Shutdown
  \/ ClosePublisherImpl

SpecBroadcast == Init /\ [][NextBroadcast]_vars

\* The broadcasts, with transports that also go down by themselves.  Every impl
\* is closed in the end: release_impl closes it with its last reference
\* (988-999) and remove_all closes every impl when the node shuts down
\* (944-951), so the close step is taken if it stays possible.
NextConn ==
  \/ NextBroadcast
  \/ \E c \in Conns : TransportClose(c)

SpecConn == Init /\ [][NextConn]_vars /\ WF_vars(ClosePublisherImpl)

\* One subscriber impl: callers add and remove callbacks, the transport thread
\* of its connection delivers a batch, and the impl may be closed at any point.
NextSub ==
  \/ \E t \in Threads :
       \/ AddCallback(t)
       \/ \E raises \in BOOLEAN : AddCallbackLatch(t, raises)
       \/ \E cb \in 1..MaxCallbacks : RemoveCallback(t, cb)
       \/ \E n \in 1..MaxMsgs : Deliver(t, n)
       \/ RcStart(t)
       \/ \E raises \in BOOLEAN : RcInvoke(t, raises)
       \/ SReturn(t)
  \/ SubConnect
  \/ CloseSubscriberImpl

SpecSub == Init /\ [][NextSub]_vars

\* The size hints of one subscriber impl, set by any thread with any integer,
\* on an impl that is open, connected or closed.
NextHints ==
  \/ \E t \in Threads :
       \/ \E q \in SizeInputs : SetQueueSizeCall(t, q)
       \/ \E b \in SizeInputs : SetBuffSizeCall(t, b)
       \/ SReturn(t)
  \/ SubConnect
  \/ CloseSubscriberImpl

SpecHints == Init /\ [][NextHints]_vars

\* A publisher impl with subscriber listeners: handles publish, connections
\* are added, and the listeners publish from peer_subscribe.
NextPeer ==
  \/ \E t \in Threads :
       \/ PublishCall(t, TRUE) \/ PubAcquire(t) \/ PubLockWait(t) \/ PClosed(t)
       \/ PLatch(t) \/ PHasCon(t) \/ PSerialize(t, FALSE) \/ PWrite(t, FALSE)
       \/ PReset(t) \/ PEvict(t) \/ PubRelease(t)
       \/ \E c \in Conns : AddConnection(t, c)
       \/ AddLatchCheck(t) \/ AddLock(t) \/ AddUnlock(t)
       \/ AddSubscriberListener(t)
       \/ \E single \in BOOLEAN : PeerSubscribe(t, single)
       \/ PeerReturn(t)
  \/ EnableLatch

SpecPeer == Init /\ [][NextPeer]_vars

\* The life of a publisher impl and of a subscriber impl: each is given
\* connections, callbacks, listeners and headers, and is closed, any number of
\* times.
NextClose ==
  \/ \E t \in Threads :
       \/ \E c \in 1..MaxPubConns : AddConnection(t, c)
       \/ AddLatchCheck(t)
       \/ AddHeaders(t)
       \/ AddSubscriberListener(t)
       \/ PReturn(t)
       \/ AddCallback(t)
       \/ \E raises \in BOOLEAN : AddCallbackLatch(t, raises)
       \/ SReturn(t)
  \/ SubConnect
  \/ ClosePublisherImpl
  \/ CloseSubscriberImpl

SpecClose == Init /\ [][NextClose]_vars

\* Connections come and go, and close() runs statement by statement.
\* add_connection and remove_connection wait for c_lock.
NextCloseLoop ==
  \/ \E t \in Threads :
       \/ \E c \in Conns : CLockFree /\ AddConnection(t, c)
       \/ AddLatchCheck(t)
       \/ PReturn(t)
       \/ CloseBegin(t)
       \/ \E ran, raises \in BOOLEAN : CloseConn(t, ran, raises)
       \/ CloseClear(t)
       \/ CloseRelease(t)
  \/ \E c \in Conns : CLockFree /\ TransportClose(c)

SpecCloseLoop == Init /\ [][NextCloseLoop]_vars

\* Callback pairs are registered, some more than once, and removed, on an
\* impl that is open, connected or closed.
NextCallbacks ==
  \/ \E t \in Threads :
       \/ \E cb \in 1..MaxCallbacks : AddCallbackPair(t, cb)
       \/ \E raises \in BOOLEAN : AddCallbackLatch(t, raises)
       \/ \E cb \in 1..MaxCallbacks : RemoveCallback(t, cb)
       \/ SReturn(t)
  \/ SubConnect
  \/ CloseSubscriberImpl

SpecCallbacks == Init /\ [][NextCallbacks]_vars

\* Connections are added, removed and closed while get_stats_info reads.
NextStats ==
  \/ \E t \in Threads :
       \/ \E c \in Conns : CLockFree /\ AddConnection(t, c)
       \/ AddLatchCheck(t)
       \/ \E c \in Conns : RemoveBegin(t, c)
       \/ RemoveStore(t)
       \/ StatsReadLive(t)
       \/ StatsReadDead(t)
       \/ StatsReturn(t)
       \/ PReturn(t)
       \/ CloseBegin(t)
       \/ \E ran, raises \in BOOLEAN : CloseConn(t, ran, raises)
       \/ CloseClear(t)
       \/ CloseRelease(t)

SpecStats == Init /\ [][NextStats]_vars

\* Termination: threads publish and add connections on a latching or plain
\* impl whose transports return from write_data (having written or raised)
\* and from close, without listeners, while the impl may be closed (by the
\* release_impl of its last handle).  A call that has begun takes its next
\* step whenever it can, and a lock that is free again and again is had in
\* the end (strong fairness of each thread's steps).
Progress(t) ==
  \/ PubAcquire(t) \/ PubLockWait(t) \/ PClosed(t) \/ PLatch(t) \/ PHasCon(t)
  \/ PSerialize(t, FALSE) \/ (\E fails \in BOOLEAN : PWrite(t, fails))
  \/ PReset(t) \/ PEvict(t) \/ PubRelease(t)
  \/ AddLatchCheck(t) \/ AddLock(t) \/ AddUnlock(t) \/ PReturn(t)

NextLive ==
  \/ \E t \in Threads :
       \/ PublishCall(t, TRUE)
       \/ \E c \in 1..MaxPubConns : AddConnection(t, c)
       \/ Progress(t)
  \/ EnableLatch
  \/ ClosePublisherImpl

SpecLive ==
  Init /\ [][NextLive]_vars /\ \A t \in Threads : SF_vars(Progress(t))

\* ================================================================ claims
InMap(i) == MapOf(impls[i].reg_type)[impls[i].resolved_name] = i
AllIdle == \A t \in Threads : thr[t].pc = "idle"
LiveHandlesOf(i) ==
  {h \in 1..Len(handles) : handles[h].state = "live" /\ handles[h].impl = i}

\* C1: over every sequence of acquire_impl / release_impl calls, ref_count is
\* never negative, and whenever no call holds the manager lock an impl is in
\* its direction's map exactly while its ref_count is > 0, is open while it is
\* in the map, and is closed and out of the map once its ref_count is 0.
C1_RefCountLifecycle ==
  /\ \A i \in 1..Len(impls) : impls[i].ref_count >= 0
  /\ lock = 0 =>
       \A i \in 1..Len(impls) :
         /\ InMap(i) <=> impls[i].ref_count > 0
         /\ InMap(i) => ~impls[i].closed
         /\ impls[i].ref_count = 0 => impls[i].closed /\ ~InMap(i)

\* A first impl was released to zero, closed and removed, and a later acquire
\* has created a second impl for the same (direction, name).
C1_Witness ==
  \E i, j \in 1..Len(impls) :
    /\ lock = 0
    /\ impls[i].ref_count = 0 /\ impls[i].closed /\ ~InMap(i)
    /\ impls[j].ref_count > 0 /\ InMap(j)
    /\ impls[i].reg_type = impls[j].reg_type
    /\ impls[i].resolved_name = impls[j].resolved_name

\* C2: threads that construct handles concurrently for one (direction, name)
\* get one impl: no two open impls share a (direction, name), every handle
\* that holds an open impl holds the one the map has for its name, and
\* so any two such handles hold the same impl.
C2_OneImplPerTopic ==
  /\ \A i, j \in 1..Len(impls) :
       (i # j /\ impls[i].reg_type = impls[j].reg_type
              /\ impls[i].resolved_name = impls[j].resolved_name)
         => (impls[i].closed \/ impls[j].closed)
  /\ \A h \in 1..Len(handles) :
       (handles[h].impl # NoImpl /\ ~impls[handles[h].impl].closed)
         => MapOf(handles[h].reg_type)[impls[handles[h].impl].resolved_name] = handles[h].impl

\* A thread inside acquire_impl has found the impl that another thread's
\* constructor, still running, created: both constructions share it.
C2_Witness ==
  \E t \in Threads, h \in 1..Len(handles) :
    /\ thr[t].pc = "acq_finish"
    /\ thr[t].impl # NoImpl
    /\ handles[h].state = "init"
    /\ handles[h].impl = thr[t].impl
    /\ \E u \in Threads \ {t} : thr[u].h = h /\ thr[u].op = "ctor"

\* C3: between calls, each impl's ref_count is the number of live handles
\* (constructed, not yet unregistered) that refer to it.
C3_RefCountIsLiveHandles ==
  AllIdle => \A i \in 1..Len(impls) : impls[i].ref_count = Cardinality(LiveHandlesOf(i))

\* C4: on a handle whose unregister calls never overlap, a second (or later)
\* unregister call changes nothing and raises nothing.
C4_SecondUnregisterIsNoop ==
  \A t \in Threads :
    (thr[t].op = "unregister" /\ thr[t].nth = 2 /\ ~handles[thr[t].h].raced)
      => (thr[t].pc # "raised" /\ ~thr[t].changed)

\* C5: whatever the interleaving of the unregister calls on a handle,
\* release_impl counts the impl's ref_count down at most once for it.
C5_ReleasedOnce == \A h \in 1..Len(handles) : handles[h].releases <= 1

\* A thread is inside _PublisherImpl.publish.
InPublish(t) ==
  pt[t].pc \in {"p_closed", "p_latch", "p_hascon", "p_serialize", "p_write",
                "p_reset", "p_evict"}

\* C6: with any threads publishing through Publisher.publish, what a
\* connection is written comes in strictly increasing seq: of two publishes
\* whose data a connection got, the one serialized with the smaller seq was
\* written to it first.
C6_SeqOrderPerConnection ==
  \A c \in Conns : \A i, j \in 1..Len(conn[c].recv) :
    i < j => conn[c].recv[i].seq < conn[c].recv[j].seq

\* A connection has been written the broadcasts of two Publisher.publish
\* calls made by different threads, the second of which waited for the publish
\* mutex behind the first.
C6_Witness ==
  \E c \in Conns, t \in Threads :
    /\ Len(conn[c].recv) = 2
    /\ ~conn[c].recv[1].single /\ ~conn[c].recv[2].single
    /\ conn[c].recv[1].id # conn[c].recv[2].id
    /\ pt[t].op = "publish" /\ pt[t].pc = "p_write" /\ pt[t].msg.id = 1
    /\ pt[t].myseq = 2

\* C7: the first data written to a connection that add_connection admitted
\* while the latch was enabled and set is the latch replay, or at least
\* carries the message that was latched then: no live broadcast of another
\* message is written to it before the latched message.
C7_LatchReplayFirst ==
  \A c \in Conns :
    (conn[c].latched # NoMsg /\ Len(conn[c].recv) >= 1)
      => (conn[c].recv[1].single \/ conn[c].recv[1].id = conn[c].latched.id)

\* C8: on an open impl with the latch enabled, whenever no publish is under
\* way the latch holds the message of the most recent publish call made with
\* the latch enabled, also when that call found no connection.
C8_LatchHoldsLastPublished ==
  ((\A t \in Threads : ~InPublish(t)) /\ ~pimpl.closed /\ pimpl.is_latch
     /\ gh.lastMsg # NoMsg)
    => pimpl.latch = gh.lastMsg

\* A publish on a latched impl that never had a connection has returned False
\* and its message is in the latch.
C8_Witness ==
  \E t \in Threads :
    /\ pt[t].pc = "pub_release" /\ pt[t].ret = "False" /\ pt[t].noconn
    /\ \A u \in Threads : ~InPublish(u)
    /\ \A c \in Conns : conn[c].state = "new"
    /\ ~pimpl.closed /\ pimpl.is_latch
    /\ pimpl.latch = pt[t].msg /\ pt[t].msg # NoMsg

\* C9: when a publish has failed to serialize its message, the latch is empty
\* or holds the most recent message whose serialization succeeded.
C9_FailedSerializationKeepsLatch ==
  \A t \in Threads :
    pt[t].exc = "SerializationError" => pimpl.latch \in {NoMsg, gh.lastSer}

\* C10: a publish that finds an open impl without connections returns False,
\* raises nothing, calls write_data on no connection and leaves seq and
\* message_data_sent as they were.
C10_NoConnectionsNoEffect ==
  \A t \in Threads :
    pt[t].noconn =>
      /\ pt[t].pc \in {"pub_release", "add_unlock"}
      /\ pt[t].ret = "False"
      /\ pt[t].exc = "none"
      /\ pimpl.seq = pt[t].seq0
      /\ pimpl.message_data_sent = pt[t].sent0
      /\ gh.nwrites = pt[t].w0

\* After a publish that was written out and whose connection was then
\* evicted, a publish finds the open impl without connections.
C10_Witness ==
  \E t \in Threads :
    /\ pt[t].noconn /\ pt[t].op = "publish" /\ pt[t].pc = "pub_release"
    /\ ~pimpl.closed
    /\ pt[t].seq0 >= 1 /\ pt[t].sent0 >= 1 /\ pt[t].w0 >= 1

\* The members of a sequence; how many entries of a connection's log carry seq.
Range(s) == {s[i] : i \in 1..Len(s)}
Written(c, seq) == Cardinality({i \in 1..Len(conn[c].recv) : conn[c].recv[i].seq = seq})

\* A publish of thread t that has serialized its message is over.
Broadcast(t) == pt[t].op = "publish" /\ pt[t].pc = "pub_release" /\ pt[t].myseq > 0

C12_FailedConnectionsEvicted ==
  /\ \A t \in Threads : Broadcast(t) =>
       \A c \in Range(pt[t].err) :
         conn[c].state = "closed" /\ c \notin Range(pimpl.connections)
  /\ \A t \in Threads : \A c \in Range(pt[t].conns) :
       conn[c].evn = 0 \/ pt[t].msg.id <= conn[c].evn
  /\ \A c \in Conns :
       /\ conn[c].state = "closed" => (conn[c].failed \/ pimpl.closed)
       /\ (conn[c].state = "live" /\ ~pimpl.closed) => c \in Range(pimpl.connections)

\* The first publish evicted connection 1 of two; the second publish, called
\* after that, is writing to connection 2 alone, which is still live.
C12_Witness ==
  \E t \in Threads :
    /\ pt[t].pc = "p_write" /\ pt[t].msg.id = 2 /\ pt[t].conns = <<2>>
    /\ conn[1].evn = 1 /\ conn[1].state = "closed" /\ conn[1].failed
    /\ conn[2].state = "live" /\ pimpl.connections = <<2>>
    /\ pimpl.dead_connections = <<1>>
\* ------------------------------------------------------------------- C13
\* The invocations receive_callback has to have made when its loops stand at
\* message mi and callback ci of the list it took at its start.
ExpectedLog(msgs, cbs, mi, ci) ==
  [k \in 1..((mi - 1) * Len(cbs) + (ci - 1)) |->
     <<msgs[((k - 1) \div Len(cbs)) + 1], cbs[((k - 1) % Len(cbs)) + 1]>>]

\* C13: receive_callback invokes every callback of the list it took at its
\* start on every message, messages in list order and callbacks in registration
\* order within a message, and raises nothing.
C13_EveryCallbackEveryMessage ==
  \A t \in Threads : sthr[t].op = "receive_callback" =>
      /\ sthr[t].pc # "raised"
      /\ sthr[t].pc = "rc_loop" =>
            sthr[t].log = ExpectedLog(sthr[t].msgs, sthr[t].taken, sthr[t].mi, sthr[t].ci)
\* ------------------------------------------------------------------- C14
\* add_callback(cb) returned normally.
Returned(cb) ==
  /\ sgh.how[cb] \in {"early", "late"}
  /\ \A t \in Threads : ~(sthr[t].pc = "ac_latch" /\ sthr[t].cb = cb)

\* The delivery of the latched message M and add_callback(cb) are both over,
\* on an impl that is still open and still has cb registered.
Settled(cb) ==
  /\ Returned(cb)
  /\ sgh.delivered
  /\ ~simpl.closed
  /\ cb \in Range(simpl.callbacks)

\* C14 as stated: in every interleaving of add_callback with the transport
\* thread that latches M and delivers it, the callback is invoked with M
\* exactly once.
C14_LatchedExactlyOnce ==
  \A cb \in 1..MaxCallbacks : Settled(cb) => sgh.inv[cb] = 1

\* C14: in every interleaving the callback is invoked with M at least once,
\* and exactly once when add_callback began after the delivery of M was over.
C14_LatchedAtLeastOnce ==
  \A cb \in 1..MaxCallbacks : Settled(cb) =>
      /\ sgh.inv[cb] >= 1
      /\ sgh.how[cb] = "late" => sgh.inv[cb] = 1

C14_Witness ==
  /\ Settled(1) /\ sgh.how[1] = "early" /\ sgh.inv[1] = 1
  /\ Settled(2) /\ sgh.how[2] = "late" /\ sgh.inv[2] = 1
\* ------------------------------------------------------------------- C15
\* C15: a close() of a publisher impl or of a subscriber impl that is already
\* closed changes no field of the impl (and nothing else).
C15_SecondCloseNoOp ==
  [][/\ (pimpl.closed /\ ClosePublisherImpl) => UNCHANGED pubVars
     /\ (simpl.closed /\ CloseSubscriberImpl) => UNCHANGED subVars]_vars

C15_Witness ==
  /\ pimpl.closed /\ pimpl.dead_connections # <<>>
  /\ pimpl.headers_none /\ pimpl.subscriber_listeners_none /\ pimpl.publock_none
  /\ \E t \in Threads : pt[t].pc = "raised" /\ pt[t].op = "add_headers"
  /\ simpl.closed /\ simpl.callbacks_none /\ sconns = <<>>
  /\ \E t \in Threads : sthr[t].pc = "raised" /\ sthr[t].op = "add_callback"
\* ------------------------------------------------------------------- C16
\* C16: the list a reader took as its snapshot of the callbacks keeps the
\* contents it had when it was taken, whatever other threads do to the impl.
C16_SnapshotNeverChanges ==
  \A t \in Threads :
      (sthr[t].pc = "rc_loop" /\ ~sthr[t].callbacks_none) => sthr[t].callbacks = sthr[t].taken
\* ------------------------------------------------------------------- C17
\* The dead-connection snapshots kept for connection c.
DeadSnapshots(c) ==
  Cardinality({i \in 1..Len(pimpl.dead_connections) : pimpl.dead_connections[i] = c})

C18_TopicsAreTheMapKeys ==
  AllIdle => topics = {n \in Names : pubs[n] # NoImpl \/ subs[n] # NoImpl}
\* ------------------------------------------------------------------- C19
\* C19: the step in which publish finds its impl closed writes to no
\* connection and leaves the impl (latch and seq among its fields) as it was;
\* the call ends without an exception when the process is shutting down and
\* with ROSException when it is not.
C19_PublishOnClosedImpl ==
  [][\A t \in Threads :
       (pt[t].pc = "p_closed" /\ pimpl.closed /\ pt'[t] # pt[t]) =>
           /\ pimpl' = pimpl /\ conn' = conn /\ gh' = gh
           /\ pt'[t].wasclosed
           /\ pt'[t].pc \in {"pub_release", "add_unlock"}
           /\ pt'[t].exc = (IF shutdown THEN "none" ELSE "ROSException")]_vars

C19_Witness ==
  /\ pimpl.closed /\ pimpl.dead_connections # <<>>
  /\ shutdown
  /\ \E t, u \in Threads :
        /\ pt[t].wasclosed /\ pt[t].op = "publish" /\ pt[t].exc = "ROSException"
        /\ pt[u].wasclosed /\ pt[u].op = "publish" /\ pt[u].exc = "none"
\* ------------------------------------------------------------------- C20
\* C20: a publish on a Publisher handle of which an unregister had returned
\* raises ROSException and never goes on to the impl, where the connections are
\* written and latch and seq change, also while another handle keeps the
\* impl of the topic open.
C20_PublishOnUnregisteredHandle ==
  \A t \in Threads :
    (thr[t].op = "publish" /\ thr[t].nth = 1) =>
        /\ thr[t].pc = "raised"
        /\ thr[t].exc = "ROSException"
        /\ thr[t].impl = NoImpl

C20_Witness ==
  \E t, u \in Threads :
    /\ thr[t].op = "publish" /\ thr[t].nth = 1 /\ thr[t].pc = "raised"
    /\ thr[u].op = "publish" /\ thr[u].pc = "pub_impl" /\ thr[u].nth = 0
    /\ thr[u].h # thr[t].h
    /\ handles[thr[u].h].acquired = handles[thr[t].h].acquired
    /\ ~impls[thr[u].impl].closed /\ impls[thr[u].impl].ref_count >= 1
    /\ InMap(thr[u].impl)
\* ------------------------------------------------------------------- C21
\* C21: set_queue_size(-1) stores None; set_queue_size(0) and set_buff_size(n)
\* with n <= 0 raise and leave the stored hint as it was; a positive integer is
\* stored as given, so the last successful setter wins.
C21_SizeHints ==
  [][\A t \in Threads : \A n \in SizeInputs :
       /\ SetQueueSizeCall(t, n) =>
             /\ n = <<-1>> => (simpl'.queue_size = <<>> /\ sthr'[t].pc = "idle")
             /\ n = <<0>> => (simpl' = simpl /\ sthr'[t].pc = "raised"
                                /\ sthr'[t].exc = "ROSException")
             /\ n[1] > 0 => (simpl'.queue_size = n /\ sthr'[t].pc = "idle")
             /\ simpl'.buff_size = simpl.buff_size
       /\ SetBuffSizeCall(t, n) =>
             /\ n[1] <= 0 => (simpl' = simpl /\ sthr'[t].pc = "raised"
                                /\ sthr'[t].exc = "ROSException")
             /\ n[1] > 0 => (simpl'.buff_size = n /\ sthr'[t].pc = "idle")
             /\ simpl'.queue_size = simpl.queue_size]_vars

C21_Witness ==
  /\ simpl.queue_size = <<MaxSize>> /\ simpl.buff_size = <<1>>
  /\ \E t, u \in Threads :
        /\ sthr[t].pc = "raised" /\ sthr[t].op = "set_queue_size"
        /\ sthr[u].pc = "raised" /\ sthr[u].op = "set_buff_size"
\* ------------------------------------------------------------------- C22
\* Thread t has serialized into the shared buffer and not yet reset it.
InBuffer(t) == pt[t].pc \in {"p_write", "p_reset"}

\* C22: at most one thread at a time is between the serialization into the
\* shared buffer and the reset of the buffer.
C22_OneThreadInBuffer ==
  Cardinality({t \in Threads : InBuffer(t)}) <= 1

\* C23: for every direction and resolved name, over any sequence of
\* acquire_impl / release_impl calls, the registration listeners are told
\* "added" once for every impl that was created and "removed" once for every
\* impl whose last reference was released, and the notifications alternate
\* added, removed, added, ... starting with added; an impl is in the map
\* exactly when the last notification was "added".
ImplsOf(reg, name) ==
  {i \in 1..Len(impls) : impls[i].reg_type = reg /\ impls[i].resolved_name = name}

Alternates(log) ==
  \A i \in 1..Len(log) : log[i] = IF i % 2 = 1 THEN "added" ELSE "removed"

Count(log, kind) == Cardinality({i \in 1..Len(log) : log[i] = kind})

C23_NotificationsAlternate ==
  \A reg \in RegTypes : \A name \in Names :
    LET log == notified[reg][name]
    IN /\ Alternates(log)
       /\ Count(log, "added") = Cardinality(ImplsOf(reg, name))
       /\ Count(log, "removed") =
            Cardinality({i \in ImplsOf(reg, name) : impls[i].closed})
       /\ (MapOf(reg)[name] # NoImpl) <=> (Len(log) % 2 = 1)

C23_Witness ==
  \E reg \in RegTypes : \E name \in Names :
    /\ notified[reg][name] = <<"added", "removed", "added">>
    /\ \E t \in Threads : thr[t].exc = "AssertionError"

\* C24: once the first close() of an impl is through _TopicImpl.close, close()
\* was called once on every connection that was in the live list, also on
\* those after one whose close() raised; the impl has no live connection; and
\* every entry the dead list had before the close is still in it.
C24_CloseClosesEveryConnection ==
  gh.closeDone =>
    /\ \A c \in Range(gh.live0) : conn[c].closes = 1
    /\ pimpl.connections = <<>> /\ pimpl.connections_none
    /\ \A d \in Range(gh.dead0) : d \in Range(pimpl.dead_connections)

C24_Witness ==
  /\ gh.closeDone
  /\ Len(gh.live0) = 2
  /\ conn[gh.live0[1]].craised
  /\ conn[gh.live0[2]].closes = 1

\* C25: remove_callback(cb, args) removes exactly one entry, the first in
\* registration order that equals the pair, and leaves the other entries and
\* their order as they were (a pair registered k times stays k-1 times);
\* without a match it raises KeyError and the list is unchanged.
Occurrences(cbs, cb) == Cardinality({i \in 1..Len(cbs) : cbs[i] = cb})

RemovesFirstMatch(t, cb) ==
  LET cbs == simpl.callbacks
  IN  IF Occurrences(cbs, cb) > 0
        THEN /\ \E i \in 1..Len(cbs) :
                  /\ cbs[i] = cb
                  /\ \A j \in 1..(i-1) : cbs[j] # cb
                  /\ simpl'.callbacks = SubSeq(cbs, 1, i-1) \o SubSeq(cbs, i+1, Len(cbs))
             /\ Occurrences(simpl'.callbacks, cb) = Occurrences(cbs, cb) - 1
             /\ sthr'[t].pc = "idle"
        ELSE /\ simpl' = simpl
             /\ sthr'[t].pc = "raised" /\ sthr'[t].exc = "KeyError"

InUnregister(h) ==
  \E t \in Threads : thr[t].op = "unregister" /\ thr[t].h = h /\ thr[t].pc # "raised"

UnregisteredFrom(i) ==
  {a \in 1..Len(handles) : handles[a].acquired = i /\ handles[a].hadcb
                              /\ handles[a].unregistered /\ ~InUnregister(a)}

Remaining(i) ==
  {b \in 1..Len(handles) : handles[b].acquired = i /\ handles[b].state = "live"
                              /\ handles[b].ucalls = 0}

C26_UnregisteredCallbackGone ==
  [][\A i \in 1..MaxHandles :
       (/\ ReceiveCallback(i)
        /\ UnregisteredFrom(i) # {}
        /\ Remaining(i) # {}
        /\ \A h \in 1..Len(handles) :
             handles[h].acquired = i => h \in UnregisteredFrom(i) \cup Remaining(i))
       => Len(impls'[i].rcvd[1]) = Cardinality({b \in Remaining(i) : handles[b].hadcb})]_vars

\* C27: a publish with connection_override = c of a message that serializes,
\* on an impl that is open in a process that is not shutting down, has by its
\* end called write_data of c with the serialized message, once, and of no
\* other connection, whatever the live list was.
C27_OverrideWritesToOverride ==
  \A t \in Threads :
    (/\ pt[t].pc \in {"add_unlock", "peer_return"}
     /\ pt[t].ov # NoConn
     /\ pt[t].msg.ok
     /\ ~pimpl.closed /\ ~shutdown)
    => /\ pt[t].ret # "False"
       /\ pt[t].conns = <<pt[t].ov>>
       /\ Written(pt[t].ov, pt[t].myseq) = 1 \/ pt[t].ov \in Range(pt[t].err)

\* C28: a Publisher.publish of a message that serializes, on an impl that
\* was open when the call began and is closed by another thread before the
\* call ends, in a process that is not shutting down, returns normally or
\* raises ROSException (publish() to a closed topic, or topic was closed
\* during publish()); nothing else escapes.
C28_CloseDuringPublish ==
  \A t \in Threads :
    (/\ pt[t].pc = "raised"
     /\ pt[t].op = "publish"
     /\ pimpl.closed /\ ~shutdown)
    => pt[t].exc \in {"ROSException", "ROSSerializationException"}

\* C29: whenever a publish has serialized its message, the shared buffer
\* holds the frame of that message and nothing else (it was empty when the
\* serialization began), so the bytes handed to write_data are the encoding
\* of exactly that message, whatever publishes came before.
C29_BufferHoldsOneMessage ==
  \A t \in Threads :
    pt[t].pc = "p_write" /\ pimpl.buff_state = "open" => pimpl.buff = <<pt[t].myseq>>

\* C30: a thread that is not inside a call on the publisher does not hold
\* the publish mutex: every Publisher.publish call has released the lock it
\* acquired when it returns or raises, on every path.
C30_PublockReleasedAtExit ==
  \A t \in Threads : pt[t].pc \in {"idle", "raised"} => plock.owner # t

\* C31: the release_impl of an unregister changes the ref_count of, and
\* closes, no impl other than the one its handle acquired at construction,
\* also after remove_all emptied the maps and a later handle made a new impl
\* under the same direction and name.
C31_UnregisterReleasesOwnImpl ==
  [][\A t \in Threads :
       ReleaseBody(t) =>
         \A i \in 1..Len(impls) :
           (impls'[i].ref_count # impls[i].ref_count \/ impls'[i].closed # impls[i].closed)
             => i = handles[thr[t].h].acquired]_vars

\* C32: in the two lists a get_stats_info call reports, every connection
\* that had been added to the impl when the call began is in exactly one:
\* the live list or the dead list, never both and never neither.
C32_StatsAccountForEveryConnection ==
  \A t \in Threads :
    pt[t].pc = "st_done" =>
      \A c \in pt[t].known :
        (c \in Range(pt[t].conns)) # (c \in Range(pt[t].err))

\* C32, last part: remove_connection of a connection that is not in the live
\* list leaves the contents of both lists as they were.
C32_RemoveOfNotLiveChangesNothing ==
  [][\A t \in Threads : \A c \in Conns :
       (RemoveBegin(t, c) /\ c \notin Range(pimpl.connections))
         => (pimpl'.connections = pimpl.connections /\ pt'[t].err = pimpl.dead_connections)]_vars

\* C33: under fair scheduling, with transports that return and without
\* listeners, every call on the publisher that has begun (publish,
\* add_connection with its latch replay) comes to its end.
C33_EveryCallCompletes ==
  \A t \in Threads : (pt[t].pc # "idle") ~> (pt[t].pc = "idle")

====
